---- MODULE Spec2Model ----
(***************************************************************************)
(* Model of the SQL statement scanner of btd/godb, src/lex.go (the         *)
(* variant with string and number literals, lines 340-744).                *)
(*                                                                         *)
(* A scan is one lexer object: a cursor over the input owned by the        *)
(* producer goroutine (lexer.run), an unbuffered channel of items, and a   *)
(* consumer that calls nextItem and drain.  Bytes are one-character        *)
(* strings; the input is a sequence of bytes, indexed from 0 in the code   *)
(* and from 1 here, so the byte at offset p is in[p + 1].                  *)
(***************************************************************************)
EXTENDS Integers, Sequences, FiniteSets, TLC

(***************************************************************************)
(* itemType                                                                *)
(***************************************************************************)
itemError == 0
itemEOF == 1
itemIdentifier == 2
itemString == 3
itemNumber == 4
itemKeyword == 5
itemComma == 6
itemStar == 7
itemSelect == 8
itemFrom == 9
itemSemicolon == 10

\* const eof = -1: the rune next() returns at the end of the input.  Runes
\* are strings here, so the end marker is a string no decoded rune equals.
eof == "eof"

\* the whitespace as it would be without the tab
spaceCharsNoTab == {" ", "\r", "\n"}

\* const spaceChars = " \t\r\n"
spaceChars == {" ", "\t", "\r", "\n"}

(***************************************************************************)
(* Runes.  The ASCII bytes are runes of width 1.  One two-byte rune is     *)
(* modelled, U+00E9 (a letter), encoded as the bytes 0xC3 0xA9; a byte     *)
(* that starts no valid encoding decodes to RuneError, width 1.            *)
(***************************************************************************)
LeadByte == "0xC3"
ContByte == "0xA9"
RuneE9 == "U+00E9"
RuneError == "U+FFFD"

lowerLetters == {"a", "b", "c", "d", "e", "f", "g", "h", "i", "j", "k", "l", "m",
                 "n", "o", "p", "q", "r", "s", "t", "u", "v", "w", "x", "y", "z"}
upperLetters == {"A", "B", "C", "D", "E", "F", "G", "H", "I", "J", "K", "L", "M",
                 "N", "O", "P", "Q", "R", "S", "T", "U", "V", "W", "X", "Y", "Z"}
decimalDigits == {"0", "1", "2", "3", "4", "5", "6", "7", "8", "9"}

\* utf8.DecodeRuneInString(l.input[l.pos:]), for pos < len(input)
DecodeRuneInString(in, pos) ==
    LET b == in[pos + 1] IN
    IF b = LeadByte
    THEN IF pos + 2 <= Len(in) /\ in[pos + 2] = ContByte
         THEN [r |-> RuneE9, w |-> 2]
         ELSE [r |-> RuneError, w |-> 1]
    ELSE IF b = ContByte
         THEN [r |-> RuneError, w |-> 1]
         ELSE [r |-> b, w |-> 1]

\* unicode.IsLetter, unicode.IsDigit on the runes of the model
IsLetter(r) == r \in lowerLetters \cup upperLetters \cup {RuneE9}
IsDigit(r) == r \in decimalDigits

isAlphaNumeric(r) == r = "_" \/ IsLetter(r) \/ IsDigit(r)
isAlpha(r) == r = "_" \/ IsLetter(r)

(***************************************************************************)
(* The rune cursor: operators on the lexer's fields                        *)
(*   l = [pos, start, width, line, startLine]                              *)
(* and three history fields the code does not have: ahead is true when    *)
(* the last cursor operation was next (a rune is there to step back over), *)
(* twice becomes true for good when backup runs while ahead is false, and  *)
(* outside becomes true for good when backup steps to before start or      *)
(* reads input[pos] outside the input (where the program would panic).     *)
(* An operator that returns a rune returns [l, r]; one that returns a bool *)
(* returns [l, ok].  Where the code names an intermediate value and uses   *)
(* it several times, the rest of the function is a second operator that    *)
(* takes the value as a parameter.                                         *)
(***************************************************************************)
newLexer ==
    [pos |-> 0, start |-> 0, width |-> 0, line |-> 1, startLine |-> 1,
     ahead |-> FALSE, twice |-> FALSE, outside |-> FALSE]

\* lines 429-435 of next: the rune d has been decoded
nextRune(l, d) ==
    [l |-> [l EXCEPT !.width = d.w,
                     !.pos = l.pos + d.w,
                     !.line = IF d.r = "\n" THEN l.line + 1 ELSE l.line,
                     !.ahead = TRUE],
     r |-> d.r]

next(in, l) ==
    IF l.pos >= Len(in)
    THEN [l |-> [l EXCEPT !.width = 0, !.ahead = TRUE], r |-> eof]
    ELSE nextRune(l, DecodeRuneInString(in, l.pos))

\* backup as it would be without the correction of the newline count
backupKeepsLine(in, l) ==
    LET p == l.pos - l.width IN
    [l EXCEPT !.pos = p,
              !.ahead = FALSE,
              !.twice = l.twice \/ ~l.ahead,
              !.outside = l.outside \/ p < l.start]

backup(in, l) ==
    LET p == l.pos - l.width IN
    [l EXCEPT !.pos = p,
              !.line = IF l.width = 1 /\ p \in 0..(Len(in) - 1) /\ in[p + 1] = "\n"
                       THEN l.line - 1 ELSE l.line,
              !.ahead = FALSE,
              !.twice = l.twice \/ ~l.ahead,
              !.outside = \/ l.outside
                          \/ p < l.start
                          \/ l.width = 1 /\ p \notin 0..(Len(in) - 1)]

\* peek as it would be if it stepped back over the rune before the one it
\* read as well
peekBackupTwice(in, n) == [l |-> backup(in, backup(in, n.l)), r |-> n.r]

\* lines 441-442 of peek, n the result of next
peekBackup(in, n) == [l |-> backup(in, n.l), r |-> n.r]

peek(in, l) == peekBackup(in, next(in, l))

\* lines 470-474 of accept, n the result of next
acceptRune(in, n, valid) ==
    IF n.r \in valid
    THEN [l |-> n.l, ok |-> TRUE]
    ELSE [l |-> backup(in, n.l), ok |-> FALSE]

accept(in, l, valid) == acceptRune(in, next(in, l), valid)

RECURSIVE acceptRun(_, _, _)
\* one test of the loop of acceptRun, n the result of next
acceptRunRune(in, n, valid) ==
    IF n.r \in valid THEN acceptRun(in, n.l, valid) ELSE backup(in, n.l)

acceptRun(in, l, valid) == acceptRunRune(in, next(in, l), valid)

\* line 641: l.start = l.pos
setStart(l) == [l EXCEPT !.start = l.pos]

\* skipWhitespace as it would be if it set start before acceptRun steps back
\* over the rune that ends the run
skipWhitespaceStartsAhead(in, l) ==
    [acceptRun(in, l, spaceChars) EXCEPT
        !.start = next(in, acceptRun(in, l, spaceChars)).l.pos]

skipWhitespace(in, l) == setStart(acceptRun(in, l, spaceChars))

\* l.input[l.start:l.pos]
pending(in, l) == SubSeq(in, l.start + 1, l.pos)

(***************************************************************************)
(* Sub-scanners: each returns the cursor it leaves and whether it matched. *)
(***************************************************************************)
identChars == lowerLetters \cup upperLetters \cup {"_"}

\* "Next thing mustn't be alphanumeric" (lines 632-636 and 674-678), p the
\* result of peek
notAlphaNumeric(in, p) ==
    IF isAlphaNumeric(p.r)
    THEN [l |-> next(in, p.l).l, ok |-> FALSE]
    ELSE [l |-> p.l, ok |-> TRUE]

\* scanIdentifier as it would be if digits could not follow the first rune
scanIdentifierLettersOnly(in, a) ==
    IF ~a.ok THEN [l |-> a.l, ok |-> FALSE]
    ELSE notAlphaNumeric(in, peek(in, acceptRun(in, a.l, identChars)))

\* lines 625-636 of scanIdentifier, a the result of accept(chars)
scanIdentifierRest(in, a) ==
    IF ~a.ok THEN [l |-> a.l, ok |-> FALSE]
    ELSE notAlphaNumeric(in, peek(in, acceptRun(in, a.l, identChars \cup decimalDigits)))

scanIdentifier(in, l) == scanIdentifierRest(in, accept(in, l, identChars))

decDigits == decimalDigits \cup {"_"}
hexDigits == decimalDigits \cup {"a", "b", "c", "d", "e", "f",
                                 "A", "B", "C", "D", "E", "F", "_"}
octDigits == {"0", "1", "2", "3", "4", "5", "6", "7", "_"}
binDigits == {"0", "1", "_"}

\* lines 649-658 of scanNumber: the digit alphabet the prefix selects; z, x,
\* o, b are the results of accept("0"), ("xX"), ("oO"), ("bB")
\* scanNumber as it would be if the prefix 0b left the decimal alphabet
prefixBDecimal(in, b) == [l |-> b.l, digits |-> decDigits]

prefixB(in, b) == [l |-> b.l, digits |-> IF b.ok THEN binDigits ELSE decDigits]

prefixO(in, o) ==
    IF o.ok THEN [l |-> o.l, digits |-> octDigits]
    ELSE prefixB(in, accept(in, o.l, {"b", "B"}))

prefixX(in, x) ==
    IF x.ok THEN [l |-> x.l, digits |-> hexDigits]
    ELSE prefixO(in, accept(in, x.l, {"o", "O"}))

prefixZero(in, z) ==
    IF ~z.ok THEN [l |-> z.l, digits |-> decDigits]
    ELSE prefixX(in, accept(in, z.l, {"x", "X"}))

scanNumberPrefix(in, l) == prefixZero(in, accept(in, l, {"0"}))

\* scanNumber as it would be without the digits after the point
scanFractionNone(in, dot, digits) == dot.l

\* lines 660-662, dot the result of accept(".")
scanFraction(in, dot, digits) ==
    IF dot.ok THEN acceptRun(in, dot.l, digits) ELSE dot.l

\* lines 664-665 and 668-669, m the result of accept of the exponent marker
exponentDigits(in, m) ==
    IF ~m.ok THEN m.l
    ELSE acceptRun(in, accept(in, m.l, {"+", "-"}).l, decDigits)

\* lines 663-670: an exponent, when len(digits) is `size` and a marker follows
scanExponent(in, l, digits, size, marks) ==
    IF Cardinality(digits) # size THEN l
    ELSE exponentDigits(in, accept(in, l, marks))

\* lines 663-678, l the cursor after the fraction
scanNumberTail(in, l, digits) ==
    notAlphaNumeric(in, peek(in, accept(in,
        scanExponent(in, scanExponent(in, l, digits, 10 + 1, {"e", "E"}),
                     digits, 16 + 6 + 1, {"p", "P"}),
        {"i"}).l))

\* lines 659-678, pre the cursor and alphabet after the prefix
scanNumberDigits(in, pre) ==
    scanNumberTail(in,
        scanFraction(in, accept(in, acceptRun(in, pre.l, pre.digits), {"."}),
                     pre.digits),
        pre.digits)

scanNumber(in, l) ==
    scanNumberDigits(in, scanNumberPrefix(in, accept(in, l, {"+", "-"}).l))

RECURSIVE scanStringLoop(_, _)
\* line 689, m the rune after a backslash
scanStringEscape(in, m) ==
    IF m.r # eof /\ m.r # "\n"
    THEN scanStringLoop(in, m.l)
    ELSE [l |-> m.l, ok |-> FALSE]

\* scanString as it would be if every quote closed the string
scanStringQuoteCloses(in, m) == [l |-> backup(in, m.l), ok |-> TRUE]

\* lines 696-699, m the rune after a quote
scanStringQuote(in, m) ==
    IF m.r # "'"
    THEN [l |-> backup(in, m.l), ok |-> TRUE]
    ELSE scanStringLoop(in, m.l)

\* the switch of lines 687-701, n the result of next
scanStringRune(in, n) ==
    CASE n.r = "\\" -> scanStringEscape(in, next(in, n.l))
      [] n.r \in {eof, "\n"} -> [l |-> n.l, ok |-> FALSE]
      [] n.r = "'" -> scanStringQuote(in, next(in, n.l))
      [] OTHER -> scanStringLoop(in, n.l)

\* lines 686-702: the loop of scanString, entered after the opening quote
scanStringLoop(in, l) == scanStringRune(in, next(in, l))

\* lines 682-702, n the first rune
scanStringOpen(in, n) ==
    IF n.r # "'"
    THEN [l |-> backup(in, n.l), ok |-> FALSE]
    ELSE scanStringLoop(in, n.l)

scanString(in, l) == scanStringOpen(in, next(in, l))

(***************************************************************************)
(* Items and the two ways the producer sends one.  An outcome is what one  *)
(* state function does up to its return or up to the channel send it       *)
(* blocks in: the cursor, the item being sent (<<>> if none) and the state *)
(* that runs after it ("nil" ends lexer.run).                              *)
(***************************************************************************)
nil == "nil"

mkItem(typ, pos, val, line) == [typ |-> typ, pos |-> pos, val |-> val, line |-> line]

\* the zero value of item, what a receive from a closed channel yields
zeroItem == mkItem(0, 0, <<>>, 0)

\* fmt.Sprintf: the format followed by its rendered arguments
Sprintf(format, args) == <<format>> \o args

\* %q of a string: double-quoted, control bytes, quote and backslash escaped
quoteByte(b) ==
    CASE b = "\n" -> "\\n"
      [] b = "\t" -> "\\t"
      [] b = "\r" -> "\\r"
      [] b = "\\" -> "\\\\"
      [] b = "\"" -> "\\\""
      [] OTHER -> b

FormatQ(text) == <<"\"">> \o [i \in 1..Len(text) |-> quoteByte(text[i])] \o <<"\"">>

\* %c of a rune: eof (-1) is no valid code point and prints as U+FFFD
FormatC(r) == IF r = eof THEN RuneError ELSE r

\* %#U of a rune
FormatU(r) == <<"U+", FormatC(r)>>

\* emit as it would be if it took the item's position from l.pos
emitAtCursor(in, l, t, nextState) ==
    [l |-> l,
     item |-> <<mkItem(t, l.pos, pending(in, l), l.startLine)>>,
     next |-> nextState]

\* l.emit(t), up to its channel send; emitReturn is the rest of emit
emit(in, l, t, nextState) ==
    [l |-> l,
     item |-> <<mkItem(t, l.start, pending(in, l), l.startLine)>>,
     next |-> nextState]

emitReturn(l) == [l EXCEPT !.start = l.pos, !.startLine = l.line]

\* errorf as it would be if it returned a state instead of nil
errorfResumes(l, format, args) ==
    [l |-> l,
     item |-> <<mkItem(itemError, l.start, Sprintf(format, args), l.startLine)>>,
     next |-> "lexEndOfStatement"]

\* l.errorf(format, args...), up to its channel send; it returns nil
errorf(l, format, args) ==
    [l |-> l,
     item |-> <<mkItem(itemError, l.start, Sprintf(format, args), l.startLine)>>,
     next |-> nil]

\* a state function that returns the next state without sending
goto(l, nextState) == [l |-> l, item |-> <<>>, next |-> nextState]

(***************************************************************************)
(* The state functions                                                     *)
(***************************************************************************)
\* the switch of lexStartStatement, n the result of next
startRune(in, n) ==
    CASE n.r = eof -> errorf(n.l, "not finished statement", <<>>)
      [] n.r \in {"s", "S"} -> goto(backup(in, n.l), "lexSelectKeyword")
      [] OTHER -> errorf(n.l, "unrecognized character at start of statement: %#U",
                         FormatU(n.r))

lexStartStatement(in, l) == startRune(in, next(in, skipWhitespace(in, l)))

\* ToUpper as it would be if it returned the letter it is given
ToUpperSame(b) == b

\* strings.ToUpper on the letters of a keyword
ToUpper(b) ==
    CASE b = "s" -> "S" [] b = "e" -> "E" [] b = "l" -> "L" [] b = "c" -> "C"
      [] b = "t" -> "T" [] b = "f" -> "F" [] b = "r" -> "R" [] b = "o" -> "O"
      [] b = "m" -> "M" [] OTHER -> b

kwSelect == <<"s", "e", "l", "e", "c", "t">>
kwFrom == <<"f", "r", "o", "m">>

RECURSIVE matchKeyword(_, _, _, _, _, _)
\* lines 546-550: the rune n against the keyword's letter at index (from 0)
matchRune(in, n, keyword, index, it, nextAction) ==
    IF ~(n.r = keyword[index + 1] \/ n.r = ToUpper(keyword[index + 1]))
    THEN errorf(n.l, "expected %c or %c at pos %v in keyword %v, but got <%c>",
                <<keyword[index + 1], ToUpper(keyword[index + 1]), ToString(index)>>
                    \o keyword \o <<FormatC(n.r)>>)
    ELSE matchKeyword(in, n.l, keyword, index + 1, it, nextAction)

\* createLexKeyword as it would be if the keyword's last letter were not
\* compared
matchKeywordButLast(in, l, keyword, index, it, nextAction) ==
    IF index >= Len(keyword) - 1 THEN emit(in, l, it, nextAction)
    ELSE matchRune(in, next(in, l), keyword, index, it, nextAction)

\* lines 545-553: the loop over the keyword's letters, then the emit
matchKeyword(in, l, keyword, index, it, nextAction) ==
    IF index >= Len(keyword) THEN emit(in, l, it, nextAction)
    ELSE matchRune(in, next(in, l), keyword, index, it, nextAction)

createLexKeyword(in, l, keyword, it, nextAction) ==
    matchKeyword(in, skipWhitespace(in, l), keyword, 0, it, nextAction)

lexSelectKeyword(in, l) == createLexKeyword(in, l, kwSelect, itemSelect, "lexValueExprList")
lexFromKeyword(in, l) == createLexKeyword(in, l, kwFrom, itemFrom, "lexFromTableName")

\* `if !l.scanX() { return l.errorf(format, l.input[l.start:l.pos]) }
\*  l.emit(t)`, s the result of the sub-scanner
scanned(in, s, format, t, nextState) ==
    IF ~s.ok THEN errorf(s.l, format, FormatQ(pending(in, s.l)))
    ELSE emit(in, s.l, t, nextState)

\* the switch of lines 562-585, n the result of next
valueRune(in, n) ==
    CASE n.r = "*" -> emit(in, n.l, itemStar, "lexValueExprListNext")
      [] n.r = "'" ->
            scanned(in, scanString(in, backup(in, n.l)), "bad string: %q",
                    itemString, "lexValueExprListNext")
      [] n.r \in {"+", "-"} \cup decimalDigits ->
            scanned(in, scanNumber(in, backup(in, n.l)), "bad number: %q",
                    itemNumber, "lexValueExprListNext")
      [] isAlpha(n.r) ->
            scanned(in, scanIdentifier(in, backup(in, n.l)), "bad identifier: %q",
                    itemIdentifier, "lexValueExprListNext")
      [] OTHER -> errorf(n.l, "unrecognized character at value exrt: %#U", FormatU(n.r))

\* lines 561-585: one value expression, up to its emit
lexValueExprList(in, l) == valueRune(in, next(in, skipWhitespace(in, l)))

\* the switch of lines 589-598 as it would be if a comma did not lead back
\* to a value expression
afterValueRuneSkipsItem(in, n) ==
    CASE n.r = "," -> emit(in, n.l, itemComma, "lexValueExprListNext")
      [] n.r \in {"f", "F"} -> goto(backup(in, n.l), "lexFromKeyword")
      [] OTHER -> errorf(n.l, "unrecognized character after value expr: %#U",
                         FormatU(n.r))

\* the switch of lines 589-598, n the result of next
afterValueRune(in, n) ==
    CASE n.r = "," -> emit(in, n.l, itemComma, "lexValueExprList")
      [] n.r \in {"f", "F"} -> goto(backup(in, n.l), "lexFromKeyword")
      [] OTHER -> errorf(n.l, "unrecognized character after value expr: %#U",
                         FormatU(n.r))

\* lines 587-598: what follows a value expression
lexValueExprListNext(in, l) == afterValueRune(in, next(in, skipWhitespace(in, l)))

lexFromTableName(in, l) ==
    scanned(in, scanIdentifier(in, skipWhitespace(in, l)), "bad identifier: %q",
            itemIdentifier, "lexEndOfStatement")

\* the end of the statement as it would be if the `;` could be left out
endRuneLenient(in, a) == emit(in, a.l, itemEOF, nil)

\* lines 612-618, a the result of accept(";")
endRune(in, a) ==
    IF a.ok THEN emit(in, a.l, itemEOF, nil)
    ELSE errorf(a.l, "unterminated statement", <<>>)

\* lexEndOfStatement as it would be without the skipWhitespace of line 611
lexEndOfStatementNoSkip(in, l) == endRune(in, accept(in, l, {";"}))

\* lines 610-619
lexEndOfStatement(in, l) == endRune(in, accept(in, skipWhitespace(in, l), {";"}))

(***************************************************************************)
(* The inputs scanned.  A base statement is                                *)
(*     select <item> (, <item>)* from t ;                                  *)
(* with up to MaxItems items and one space before every lexeme but the     *)
(* first, `,` and `;`.  The inputs are the base statements, each with one  *)
(* lexeme replaced, or with one gap replaced, or cut after any byte, or    *)
(* followed by one more lexeme, and the statements quoted in the           *)
(* documentation.                                                          *)
(***************************************************************************)
MaxItems == 2

RECURSIVE Concat(_)
Concat(ss) == IF ss = <<>> THEN <<>> ELSE Head(ss) \o Concat(Tail(ss))

BaseItems == {<<"*">>, <<"a">>}

\* a first item of either kind, followed by identifiers
ItemLists ==
    {[j \in 1..k |-> IF j = 1 THEN b ELSE <<"a">>] : b \in BaseItems, k \in 1..MaxItems}

Lexemes(its) ==
    <<kwSelect>>
        \o [j \in 1..(2 * Len(its) - 1) |->
               IF j % 2 = 1 THEN its[(j + 1) \div 2] ELSE <<",">>]
        \o <<kwFrom, <<"t">>, <<";">>>>

\* gaps[j] precedes lexs[j]; the last gap follows the last lexeme
DefaultGaps(lexs) ==
    [j \in 1..(Len(lexs) + 1) |->
        IF j = 1 \/ j = Len(lexs) + 1 \/ lexs[j] \in {<<",">>, <<";">>}
        THEN <<>> ELSE <<" ">>]

\* one space before every lexeme
AllSpaceGaps(lexs) ==
    [j \in 1..(Len(lexs) + 1) |-> IF j = Len(lexs) + 1 THEN <<>> ELSE <<" ">>]

Build(lexs, gaps) ==
    Concat([j \in 1..Len(lexs) |-> gaps[j] \o lexs[j]]) \o gaps[Len(lexs) + 1]

LexemeAlts ==
    {<<>>, <<"S", "e", "L", "e", "C", "t">>, <<"F", "R", "O", "M">>,
     <<"f", "r", "o", "m", "m">>, <<"f", "r", "o", "n">>, <<"s", "e", "l">>,
     <<"x">>, <<"_", "b", "2">>,
     <<"*">>, <<",">>, <<";">>, <<"1", "1">>, <<"1", "2", "a", "b", "c">>,
     <<"'", "a", "b", "'", "'", "c", "'">>, <<"'", "a">>,
     <<"t", LeadByte, ContByte>>, <<"#">>}

GapAlts ==
    {<<>>, <<" ">>, <<"\n">>, <<"\t", "\r">>, <<" ", "\n", "\n", " ">>}

Variants(its) ==
    LET lexs == Lexemes(its)
        gaps == DefaultGaps(lexs)
        base == Build(lexs, gaps)
    IN {Build([lexs EXCEPT ![p] = x], gaps) : p \in 1..Len(lexs), x \in LexemeAlts}
       \cup {Build(lexs, [gaps EXCEPT ![p] = g]) : p \in 1..Len(gaps), g \in GapAlts}
       \cup {SubSeq(base, 1, n) : n \in 0..Len(base)}
       \cup {base \o x : x \in LexemeAlts}

Documented ==
    {\* select a, b, c from t;
     Build(Lexemes(<<<<"a">>, <<"b">>, <<"c">>>>),
           DefaultGaps(Lexemes(<<<<"a">>, <<"b">>, <<"c">>>>))),
     \*  sElect col  , col, 11, 'ab''c' from table;   (main)
     Concat(<<<<" ", "s", "E", "l", "e", "c", "t", " ", "c", "o", "l", " ", " ", ",",
               " ", "c", "o", "l", ",", " ", "1", "1", ",", " ">>,
              <<"'", "a", "b", "'", "'", "c", "'", " ">>,
              kwFrom, <<" ", "t", "a", "b", "l", "e", ";">>>>)}

Inputs == Documented \cup UNION {Variants(its) : its \in ItemLists}

(***************************************************************************)
(* Statements `select <literal> from t;` whose one item is a text over the *)
(* bytes that number literals are made of, of up to MaxNumberLen bytes, or *)
(* over the bytes that matter to a string literal, of up to MaxStringLen   *)
(* bytes, or one of the literals quoted in the documentation.              *)
(***************************************************************************)
MaxNumberLen == 3
MaxStringLen == 4

NumberBytes == {"+", "0", "1", "8", "b", "x", "e", "p", ".", "_", "i"}

StringBytes == {"'", "\\", "a", "\n"}

Texts(bytes, n) == UNION {[1..k -> bytes] : k \in 1..n}

DocumentedLiterals ==
    {<<"1", "1">>, <<"+", "3", ".", "5">>, <<"0", "x", "F", "F">>,
     <<"0", "b", "1", "0", "1">>, <<"1", "e", "1", "0">>, <<"0", "x", "1", "p", "4">>,
     <<"1", "2", "a", "b", "c">>, <<"0", "b", "1", "2">>, <<"0", "o", "8">>,
     <<"1", "p", "4">>, <<"0", "b", "1", "e", "1">>, <<"0", "o", "7", "e", "1">>,
     <<"'", "a", "b", "'", "'", "c", "'">>}

Literals ==
    DocumentedLiterals \cup Texts(NumberBytes, MaxNumberLen)
        \cup Texts(StringBytes, MaxStringLen)

LiteralInputs ==
    {Build(Lexemes(<<x>>), DefaultGaps(Lexemes(<<x>>))) : x \in Literals}
        \cup {\* select + from t;   select - , a from t;
              Build(Lexemes(<<<<"+">>>>), AllSpaceGaps(Lexemes(<<<<"+">>>>))),
              Build(Lexemes(<<<<"-">>, <<"a">>>>),
                    AllSpaceGaps(Lexemes(<<<<"-">>, <<"a">>>>)))}

(***************************************************************************)
(* Pairs of inputs with the same lexemes and other whitespace.  The first  *)
(* of a pair has one space in every gap, or in the gaps a base statement   *)
(* has one; the second has every space of the first, or one of them,       *)
(* replaced by another run of whitespace.                                  *)
(***************************************************************************)
WsItemLists ==
    {<<<<"*">>>>,
     <<<<"a">>, <<"'", "a", " ", "b", "'">>>>,
     <<<<"1", "1">>, <<"_", "b", "2">>>>}

WsLexemeAlts ==
    {<<>>, <<"#">>, <<"1", "2", "a">>, <<"'", "a">>, <<"f", "r", "o">>,
     <<"s", "e", "l">>}

WsLexemesOf(lexs) ==
    {lexs} \cup {[lexs EXCEPT ![p] = x] : p \in 1..Len(lexs), x \in WsLexemeAlts}

WsLexemes == UNION {WsLexemesOf(Lexemes(its)) : its \in WsItemLists}

WsRuns == {<<" ">>, <<"\n">>, <<"\t">>, <<"\r">>, <<" ", "\t", "\r", "\n">>}

\* the gaps at the positions ps that are not empty, replaced by r
Regap(gaps, ps, r) ==
    [j \in 1..Len(gaps) |-> IF j \in ps /\ gaps[j] # <<>> THEN r ELSE gaps[j]]

WsRegaps(gaps) ==
    {Regap(gaps, 1..Len(gaps), r) : r \in WsRuns}
        \cup {Regap(gaps, {p}, r) : p \in 1..Len(gaps), r \in {<<"\n">>, <<"\t", "\r">>}}

WsPairsOf(lexs, gaps) ==
    {<<Build(lexs, gaps), Build(lexs, g)>> : g \in WsRegaps(gaps)}

WsPairs ==
    UNION {WsPairsOf(lexs, DefaultGaps(lexs)) \cup WsPairsOf(lexs, AllSpaceGaps(lexs)) :
               lexs \in WsLexemes}

\* the inputs scanned twice: the statements with one space in the gaps
TwoInputs == Documented \cup {Build(lexs, DefaultGaps(lexs)) : lexs \in WsLexemes}

(***************************************************************************)
(* Pairs of inputs that differ in the case of the letters of the keywords: *)
(* the first has `select` and `from`, the second has them in one of the    *)
(* ways to write them in upper and lower case.                             *)
(***************************************************************************)
UpperCase(b) ==
    CASE b = "s" -> "S" [] b = "e" -> "E" [] b = "l" -> "L" [] b = "c" -> "C"
      [] b = "t" -> "T" [] b = "f" -> "F" [] b = "r" -> "R" [] b = "o" -> "O"
      [] b = "m" -> "M"

\* the word w with the letters that mask m selects in upper case
Cased(w, m) == [i \in 1..Len(w) |-> IF m[i] THEN UpperCase(w[i]) ELSE w[i]]

Casings(w) == {Cased(w, m) : m \in [1..Len(w) -> BOOLEAN]}

CasePairsOf(lexs, gaps) ==
    {<<Build(lexs, gaps),
       Build([lexs EXCEPT ![1] = sel, ![Len(lexs) - 2] = frm], gaps)>> :
         sel \in Casings(kwSelect), frm \in Casings(kwFrom)}

CaseStatements ==
    {Lexemes(<<<<"*">>>>), Lexemes(<<<<"a">>, <<"b">>>>), Lexemes(<<kwFrom>>),
     [Lexemes(<<<<"a">>>>) EXCEPT ![4] = <<"#">>]}

CasePairs ==
    UNION {CasePairsOf(lexs, DefaultGaps(lexs)) : lexs \in CaseStatements}

(***************************************************************************)
(* State.  Every variable is a function of the scans (lexers) that exist.  *)
(***************************************************************************)
VARIABLES
    input,      \* lexer.input
    l,          \* lexer.pos, start, width, line, startLine
    state,      \* the state function lexer.run calls next ("nil": none)
    sending,    \* <<item>> while the producer is blocked in `l.items <- item`
    closed,     \* close(l.items) has happened
    produced,   \* history: the items the producer has reached a send with
    cpc,        \* the consumer: "idle", or inside "nextItem" or "drain"
    received,   \* history: the items nextItem has received from the producer
    afterClose, \* history: what nextItem returned from the closed channel
    discarded,  \* history: the items drain has thrown away
    drains,     \* history: the number of drain calls that have returned
    queue       \* the inputs the caller has yet to call lex on

vars == <<input, l, state, sending, closed, produced, cpc, received, afterClose,
          discarded, drains, queue>>

lexerVars == <<input, l, state, produced>>
consumerHist == <<received, afterClose, discarded, drains>>

\* the lexers that can exist, and those that do
ScanIds == {"a", "b"}
Scans == DOMAIN input

\* the consumer's calls that the model follows after the stream is closed
MaxClosedReads == 1
MaxDrains == 1

(***************************************************************************)
(* lex(name, input): a new lexer, its goroutine at the top of              *)
(* lexer.run(lexStartStatement).  Start is the first call, in the initial  *)
(* state; LexNext is a later call, made once the consumer of every earlier *)
(* scan has received its terminal item.                                    *)
(***************************************************************************)
lex(s, in) ==
    [input |-> s :> in,
     l |-> s :> newLexer,
     state |-> s :> "lexStartStatement",
     sending |-> s :> <<>>,
     closed |-> s :> FALSE,
     produced |-> s :> <<>>,
     cpc |-> s :> "idle",
     received |-> s :> <<>>,
     afterClose |-> s :> <<>>,
     discarded |-> s :> <<>>,
     drains |-> s :> 0]

Start(ins) ==
    LET new == lex("a", Head(ins)) IN
    /\ input = new.input
    /\ l = new.l
    /\ state = new.state
    /\ sending = new.sending
    /\ closed = new.closed
    /\ produced = new.produced
    /\ cpc = new.cpc
    /\ received = new.received
    /\ afterClose = new.afterClose
    /\ discarded = new.discarded
    /\ drains = new.drains
    /\ queue = Tail(ins)

\* the consumer has received the terminal item of scan s
TerminalReceived(s) ==
    received[s] # <<>> /\ received[s][Len(received[s])].typ \in {itemEOF, itemError}

\* lex as it would be if the lexers shared one cursor: the call puts the
\* cursor of every lexer at the start
LexCallSharesCursor(s) ==
    /\ queue # <<>>
    /\ s \notin Scans
    /\ LET new == lex(s, Head(queue)) IN
       /\ input' = input @@ new.input
       /\ l' = [t \in Scans \cup {s} |-> newLexer]
       /\ state' = state @@ new.state
       /\ sending' = sending @@ new.sending
       /\ closed' = closed @@ new.closed
       /\ produced' = produced @@ new.produced
       /\ cpc' = cpc @@ new.cpc
       /\ received' = received @@ new.received
       /\ afterClose' = afterClose @@ new.afterClose
       /\ discarded' = discarded @@ new.discarded
       /\ drains' = drains @@ new.drains
    /\ queue' = Tail(queue)

\* a call of lex on the next input of the caller, at any moment
LexCall(s) ==
    /\ queue # <<>>
    /\ s \notin Scans
    /\ LET new == lex(s, Head(queue)) IN
       /\ input' = input @@ new.input
       /\ l' = l @@ new.l
       /\ state' = state @@ new.state
       /\ sending' = sending @@ new.sending
       /\ closed' = closed @@ new.closed
       /\ produced' = produced @@ new.produced
       /\ cpc' = cpc @@ new.cpc
       /\ received' = received @@ new.received
       /\ afterClose' = afterClose @@ new.afterClose
       /\ discarded' = discarded @@ new.discarded
       /\ drains' = drains @@ new.drains
    /\ queue' = Tail(queue)

\* a call of lex made once every earlier scan has delivered its terminal item
LexNext(s) == (\A t \in Scans : TerminalReceived(t)) /\ LexCall(s)

(***************************************************************************)
(* The producer goroutine, lexer.run.  One action per state function: it   *)
(* runs the function to its return, or to the channel send it blocks in.   *)
(***************************************************************************)
\* the producer as it would run if a send did not block it
runStateUnblocked(s, name, o) ==
    /\ s \in Scans
    /\ state[s] = name
    /\ ~closed[s]
    /\ l' = [l EXCEPT ![s] = o.l]
    /\ sending' = [sending EXCEPT ![s] = o.item]
    /\ state' = [state EXCEPT ![s] = o.next]
    /\ produced' = [produced EXCEPT ![s] = @ \o o.item]
    /\ UNCHANGED <<queue, input, closed, cpc, consumerHist>>

runState(s, name, o) ==
    /\ s \in Scans
    /\ state[s] = name
    /\ sending[s] = <<>>
    /\ ~closed[s]
    /\ l' = [l EXCEPT ![s] = o.l]
    /\ sending' = [sending EXCEPT ![s] = o.item]
    /\ state' = [state EXCEPT ![s] = o.next]
    /\ produced' = [produced EXCEPT ![s] = @ \o o.item]
    /\ UNCHANGED <<queue, input, closed, cpc, consumerHist>>

StartStatement(s) ==
    runState(s, "lexStartStatement", lexStartStatement(input[s], l[s]))
SelectKeyword(s) ==
    runState(s, "lexSelectKeyword", lexSelectKeyword(input[s], l[s]))
ValueExprList(s) ==
    runState(s, "lexValueExprList", lexValueExprList(input[s], l[s]))
ValueExprListNext(s) ==
    runState(s, "lexValueExprListNext", lexValueExprListNext(input[s], l[s]))
FromKeyword(s) ==
    runState(s, "lexFromKeyword", lexFromKeyword(input[s], l[s]))
FromTableName(s) ==
    runState(s, "lexFromTableName", lexFromTableName(input[s], l[s]))
EndOfStatement(s) ==
    runState(s, "lexEndOfStatement", lexEndOfStatement(input[s], l[s]))

\* the end of run as it would be if the last send did not block it
CloseWhileSending(s) ==
    /\ s \in Scans
    /\ state[s] = nil
    /\ ~closed[s]
    /\ closed' = [closed EXCEPT ![s] = TRUE]
    /\ UNCHANGED <<queue, lexerVars, sending, cpc, consumerHist>>

\* the end of run as it would be without the close
CloseForgotten(s) ==
    /\ s \in Scans
    /\ state[s] = nil
    /\ sending[s] = <<>>
    /\ ~closed[s]
    /\ UNCHANGED vars

\* the loop of run ends on the nil state; close(l.items)
Close(s) ==
    /\ s \in Scans
    /\ state[s] = nil
    /\ sending[s] = <<>>
    /\ ~closed[s]
    /\ closed' = [closed EXCEPT ![s] = TRUE]
    /\ UNCHANGED <<queue, lexerVars, sending, cpc, consumerHist>>

\* The send the producer is blocked in completes: emit runs to its end
\* (errorf has nothing left to do) and the function returns state[s].
sendCompletes(s) ==
    /\ sending' = [sending EXCEPT ![s] = <<>>]
    /\ l' = [l EXCEPT ![s] = IF sending[s][1].typ = itemError
                              THEN @ ELSE emitReturn(@)]
    /\ UNCHANGED <<queue, input, state, produced, closed>>

(***************************************************************************)
(* The consumer: nextItem and drain                                        *)
(***************************************************************************)
NextItemCall(s) ==
    /\ s \in Scans
    /\ cpc[s] = "idle"
    /\ Len(afterClose[s]) < MaxClosedReads
    /\ cpc' = [cpc EXCEPT ![s] = "nextItem"]
    /\ UNCHANGED <<queue, lexerVars, sending, closed, consumerHist>>

\* <-l.items meets the producer's send
NextItemReceive(s) ==
    /\ s \in Scans
    /\ cpc[s] = "nextItem"
    /\ sending[s] # <<>>
    /\ received' = [received EXCEPT ![s] = Append(@, sending[s][1])]
    /\ cpc' = [cpc EXCEPT ![s] = "idle"]
    /\ sendCompletes(s)
    /\ UNCHANGED <<queue, afterClose, discarded, drains>>

\* nextItem as it would be if a receive from the closed channel yielded the
\* last item once more
NextItemClosedRepeats(s) ==
    /\ s \in Scans
    /\ cpc[s] = "nextItem"
    /\ closed[s]
    /\ afterClose' = [afterClose EXCEPT ![s] = Append(@, produced[s][Len(produced[s])])]
    /\ cpc' = [cpc EXCEPT ![s] = "idle"]
    /\ UNCHANGED <<queue, lexerVars, sending, closed, received, discarded, drains>>

\* <-l.items on the closed channel yields the zero item
NextItemClosed(s) ==
    /\ s \in Scans
    /\ cpc[s] = "nextItem"
    /\ closed[s]
    /\ afterClose' = [afterClose EXCEPT ![s] = Append(@, zeroItem)]
    /\ cpc' = [cpc EXCEPT ![s] = "idle"]
    /\ UNCHANGED <<queue, lexerVars, sending, closed, received, discarded, drains>>

DrainCall(s) ==
    /\ s \in Scans
    /\ cpc[s] = "idle"
    /\ drains[s] < MaxDrains
    /\ cpc' = [cpc EXCEPT ![s] = "drain"]
    /\ UNCHANGED <<queue, lexerVars, sending, closed, consumerHist>>

\* one iteration of `for range l.items`
DrainReceive(s) ==
    /\ s \in Scans
    /\ cpc[s] = "drain"
    /\ sending[s] # <<>>
    /\ discarded' = [discarded EXCEPT ![s] = Append(@, sending[s][1])]
    /\ sendCompletes(s)
    /\ UNCHANGED <<queue, cpc, received, afterClose, drains>>

\* drain as it would be if it returned without waiting for the close
DrainReturnsEarly(s) ==
    /\ s \in Scans
    /\ cpc[s] = "drain"
    /\ cpc' = [cpc EXCEPT ![s] = "idle"]
    /\ drains' = [drains EXCEPT ![s] = @ + 1]
    /\ UNCHANGED <<queue, lexerVars, sending, closed, received, afterClose, discarded>>

\* the range loop ends when the channel is closed
DrainReturn(s) ==
    /\ s \in Scans
    /\ cpc[s] = "drain"
    /\ closed[s]
    /\ cpc' = [cpc EXCEPT ![s] = "idle"]
    /\ drains' = [drains EXCEPT ![s] = @ + 1]
    /\ UNCHANGED <<queue, lexerVars, sending, closed, received, afterClose, discarded>>

\* the loop of run: l.state = l.state(l) while l.state is not nil
StateFunctions(s) ==
    \/ StartStatement(s)
    \/ SelectKeyword(s)
    \/ ValueExprList(s)
    \/ ValueExprListNext(s)
    \/ FromKeyword(s)
    \/ FromTableName(s)
    \/ EndOfStatement(s)

Producer(s) == StateFunctions(s) \/ Close(s)

Consumer(s) ==
    \/ NextItemCall(s)
    \/ NextItemReceive(s)
    \/ NextItemClosed(s)
    \/ DrainCall(s)
    \/ DrainReceive(s)
    \/ DrainReturn(s)

Next == \E s \in ScanIds : Producer(s) \/ Consumer(s)

Init == \E in \in Inputs : Start(<<in>>)

Spec == Init /\ [][Next]_vars

(***************************************************************************)
(* The consumer of main: it calls nextItem until it has received an Error  *)
(* or EOF item, and then a caller with more inputs scans the next one.     *)
(***************************************************************************)
MainNextItem(s) == s \in Scans /\ ~TerminalReceived(s) /\ NextItemCall(s)

NextMain ==
    \E s \in ScanIds :
        Producer(s) \/ MainNextItem(s) \/ NextItemReceive(s) \/ LexNext(s)

\* main over one statement with a literal
NextScan == \E s \in ScanIds : Producer(s) \/ MainNextItem(s) \/ NextItemReceive(s)

InitLit == \E in \in LiteralInputs : Start(<<in>>)

SpecLit == InitLit /\ [][NextScan]_vars

\* two scans of one input, the second started at any moment
NextTwo ==
    \E s \in ScanIds :
        Producer(s) \/ MainNextItem(s) \/ NextItemReceive(s) \/ LexCall(s)

InitTwo == \E in \in TwoInputs : Start(<<in, in>>)

SpecTwo == InitTwo /\ [][NextTwo]_vars

\* main over two inputs that differ in their whitespace
InitWs == \E pr \in WsPairs : Start(pr)

SpecWs == InitWs /\ [][NextMain]_vars

\* main over two inputs that differ in the case of their keywords
InitCase == \E pr \in CasePairs : Start(pr)

SpecCase == InitCase /\ [][NextMain]_vars

(***************************************************************************)
(* Scheduling.  The Go scheduler runs every goroutine that can run: the    *)
(* producer is not stopped short of a send nobody receives, and a consumer *)
(* inside nextItem or drain takes the item offered or sees the close.      *)
(* Whether the consumer calls again is its own choice; KeepsPulling is the *)
(* choice of a consumer that calls nextItem until it has the terminal      *)
(* item.                                                                   *)
(***************************************************************************)
\* the loop of run has a state function to call: the producer is not blocked
\* in a send and its state is not nil
InLoop(s) == s \in Scans /\ state[s] # nil /\ sending[s] = <<>> /\ ~closed[s]

\* state = state(l): the call the loop makes in state `name`
stateFn(name, in, c) ==
    CASE name = "lexStartStatement" -> lexStartStatement(in, c)
      [] name = "lexSelectKeyword" -> lexSelectKeyword(in, c)
      [] name = "lexValueExprList" -> lexValueExprList(in, c)
      [] name = "lexValueExprListNext" -> lexValueExprListNext(in, c)
      [] name = "lexFromKeyword" -> lexFromKeyword(in, c)
      [] name = "lexFromTableName" -> lexFromTableName(in, c)
      [] name = "lexEndOfStatement" -> lexEndOfStatement(in, c)

\* weak fairness of StateFunctions(s), with its enabling condition written out
LoopRuns(s) == []<>(~InLoop(s)) \/ []<><<StateFunctions(s)>>_vars

Scheduled(s) ==
    /\ LoopRuns(s)
    /\ WF_vars(Close(s))
    /\ WF_vars(NextItemReceive(s))
    /\ WF_vars(NextItemClosed(s))
    /\ WF_vars(DrainReceive(s))
    /\ WF_vars(DrainReturn(s))

KeepsPulling(s) == WF_vars(MainNextItem(s))

FairSpec == Spec /\ \A s \in ScanIds : Scheduled(s)

PullSpec == Spec /\ \A s \in ScanIds : Scheduled(s) /\ KeepsPulling(s)

(***************************************************************************)
(* Vocabulary of the properties                                            *)
(***************************************************************************)
Last(q) == q[Len(q)]

Terminal(it) == it.typ \in {itemEOF, itemError}

\* the items the consumer has taken from the channel, in order
Taken(s) == received[s] \o discarded[s]

\* the producer has sent its last item or is blocked sending it
Finished(s) == state[s] = nil

Kinds(q) == [i \in 1..Len(q) |-> q[i].typ]

IsPrefix(p, q) == Len(p) <= Len(q) /\ SubSeq(q, 1, Len(p)) = p

\* the offset just after a token
EndOf(it) == it.pos + Len(it.val)

\* the number of '\n' bytes in the input before offset p
NewlinesBefore(in, p) == Cardinality({i \in 1..p : in[i] = "\n"})

(***************************************************************************)
(* C1: in every state of a scan, a terminal item (EOF or Error) is the     *)
(* last item the producer has produced and the last the consumer has       *)
(* taken, so there is at most one and nothing follows it; an Error item    *)
(* leaves the machine with no next state; and a closed stream holds        *)
(* exactly one terminal item.                                              *)
(***************************************************************************)
TerminalOnlyLast(q) == \A i \in 1..Len(q) : Terminal(q[i]) => i = Len(q)

C1_OneTerminalLast ==
    \A s \in Scans :
        /\ TerminalOnlyLast(produced[s])
        /\ TerminalOnlyLast(Taken(s))
        /\ \A i \in 1..Len(produced[s]) :
               produced[s][i].typ = itemError => state[s] = nil
        /\ closed[s] => /\ produced[s] # <<>>
                        /\ Terminal(Last(produced[s]))
                        /\ Taken(s) = produced[s]

C1_Witness ==
    \E s \in Scans :
        /\ closed[s]
        /\ Len(received[s]) >= 3
        /\ Last(received[s]).typ = itemError

(***************************************************************************)
(* C2: a scan whose last item is EOF has produced the kinds                *)
(* Select, item, (Comma, item)*, From, Identifier, EOF, each item one of   *)
(* Star, String, Number, Identifier; a scan that ends otherwise ends in an *)
(* Error item.                                                             *)
(***************************************************************************)
ValueKinds == {itemStar, itemString, itemNumber, itemIdentifier}

StatementKinds(k) ==
    LET n == Len(k) IN
    /\ n >= 5
    /\ (n - 4) % 2 = 1
    /\ k[1] = itemSelect
    /\ \A i \in 2..(n - 3) :
           IF i % 2 = 0 THEN k[i] \in ValueKinds ELSE k[i] = itemComma
    /\ k[n - 2] = itemFrom
    /\ k[n - 1] = itemIdentifier
    /\ k[n] = itemEOF

C2_EOFOnlyAfterStatement ==
    \A s \in Scans :
        /\ (produced[s] # <<>> /\ Last(produced[s]).typ = itemEOF)
               => StatementKinds(Kinds(produced[s]))
        /\ (closed[s] /\ ~StatementKinds(Kinds(produced[s])))
               => Last(produced[s]).typ = itemError

C2_Witness ==
    \E s \in Scans :
        /\ closed[s]
        /\ Len(received[s]) >= 7
        /\ Last(received[s]).typ = itemEOF
        /\ \E i \in 1..Len(received[s]) : received[s][i].typ = itemComma

(***************************************************************************)
(* C3: the items other than Error carry the text of the input at their     *)
(* offset, their offsets increase strictly, none starts before the one     *)
(* before it ends, and the input before the first and between two          *)
(* successive ones is whitespace only.                                     *)
(***************************************************************************)
OnlySpace(in, from, to) == \A i \in (from + 1)..to : in[i] \in spaceChars

TokensCoverInput(in, q) ==
    \A i \in 1..Len(q) :
        q[i].typ # itemError =>
            /\ EndOf(q[i]) <= Len(in)
            /\ q[i].val = SubSeq(in, q[i].pos + 1, EndOf(q[i]))
            /\ IF i = 1 THEN OnlySpace(in, 0, q[i].pos)
               ELSE /\ q[i].pos > q[i - 1].pos
                    /\ q[i].pos >= EndOf(q[i - 1])
                    /\ OnlySpace(in, EndOf(q[i - 1]), q[i].pos)

C3_TokensCoverInput ==
    \A s \in Scans : TokensCoverInput(input[s], produced[s])

C3_Witness ==
    \E s \in Scans :
        /\ Len(received[s]) >= 3
        /\ \A i \in 1..3 : received[s][i].typ # itemError
        /\ received[s][1].pos > 0
        /\ received[s][3].pos > EndOf(received[s][2])

(***************************************************************************)
(* C4: the channel is a rendezvous.  What the consumer has taken is a      *)
(* prefix of what the producer has produced, shorter by the one item the   *)
(* producer is blocked sending and by no more; and while the producer is   *)
(* blocked no step changes its cursor, its next state or what it has       *)
(* produced, except the step in which the consumer takes the item.         *)
(***************************************************************************)
Rendezvous(s) ==
    /\ IsPrefix(Taken(s), produced[s])
    /\ IF sending[s] = <<>>
       THEN Taken(s) = produced[s]
       ELSE produced[s] = Taken(s) \o sending[s]

BlockedUntilTaken(s) ==
    (s \in Scans /\ sending[s] # <<>>) =>
        \/ <<l[s], state[s], produced[s], sending[s]>>'
               = <<l[s], state[s], produced[s], sending[s]>>
        \/ /\ Taken(s)' = Taken(s) \o sending[s]
           /\ sending'[s] = <<>>

C4_Rendezvous ==
    /\ [](\A s \in Scans : Rendezvous(s))
    /\ [][\A s \in ScanIds : BlockedUntilTaken(s)]_vars

C4_Witness ==
    \E s \in Scans :
        /\ sending[s] # <<>>
        /\ Len(received[s]) >= 2
        /\ cpc[s] = "idle"

(***************************************************************************)
(* C5: with a consumer that keeps calling nextItem until it has received   *)
(* the terminal item, every scan comes to its end: the producer reaches    *)
(* the nil state and closes the stream; while it is in the loop every call *)
(* of a state function sends an item or returns another state; and once    *)
(* the terminal item has been taken the close needs no step of the         *)
(* consumer, it is the producer's own next step.                           *)
(***************************************************************************)
TerminalTaken(s) == Taken(s) # <<>> /\ Terminal(Last(Taken(s)))

\* the call of the state function changes what the loop of run goes on with:
\* it blocks sending an item or returns another state
CallAdvances(s, o) == o.item # <<>> \/ o.next # state[s]

C5_ScanTerminates ==
    \A s \in ScanIds :
        /\ <>(s \in Scans => (Finished(s) /\ closed[s]))
        /\ [](InLoop(s) => CallAdvances(s, stateFn(state[s], input[s], l[s])))
        /\ []((s \in Scans /\ TerminalTaken(s) /\ ~closed[s]) => ENABLED Close(s))

C5_Witness ==
    \E s \in Scans :
        /\ closed[s]
        /\ Len(received[s]) >= 5
        /\ discarded[s] = <<>>
        /\ drains[s] = 0
        /\ cpc[s] = "idle"

(***************************************************************************)
(* C6: a call of drain returns, whatever the consumer has received before  *)
(* it; when it returns the producer has run to its end and the stream is   *)
(* closed; and a drain called after the terminal item has been received    *)
(* throws nothing away.                                                    *)
(***************************************************************************)
DrainReturns(s) == s \in Scans /\ cpc[s] = "drain" /\ cpc'[s] = "idle"

DrainReturnsAtEnd(s) ==
    DrainReturns(s) => (sending[s] = <<>> /\ Finished(s) /\ closed[s])

NothingDiscardedAfterTerminal(s) ==
    (s \in Scans /\ TerminalReceived(s)) => (discarded'[s] = discarded[s])

C6_Drain ==
    /\ \A s \in ScanIds :
           (s \in Scans /\ cpc[s] = "drain")
               ~> (s \in Scans /\ cpc[s] = "idle" /\ drains[s] > 0)
    /\ [][\A s \in ScanIds : DrainReturnsAtEnd(s)]_vars
    /\ [][\A s \in ScanIds : NothingDiscardedAfterTerminal(s)]_vars

C6_Witness ==
    \E s \in Scans :
        /\ drains[s] > 0
        /\ Len(received[s]) >= 1
        /\ Len(discarded[s]) >= 2

(***************************************************************************)
(* The lexemes of an input, read off the text without the scanner: a       *)
(* lexeme is a maximal run of ASCII letters, digits and underscores, or    *)
(* one other byte that is not whitespace.                                  *)
(***************************************************************************)
WhiteSpace == {" ", "\t", "\r", "\n"}

WordBytes ==
    {"a", "b", "c", "d", "e", "f", "g", "h", "i", "j", "k", "l", "m", "n", "o",
     "p", "q", "r", "s", "t", "u", "v", "w", "x", "y", "z",
     "A", "B", "C", "D", "E", "F", "G", "H", "I", "J", "K", "L", "M", "N", "O",
     "P", "Q", "R", "S", "T", "U", "V", "W", "X", "Y", "Z",
     "0", "1", "2", "3", "4", "5", "6", "7", "8", "9", "_"}

DigitBytes == {"0", "1", "2", "3", "4", "5", "6", "7", "8", "9"}

\* the offset at which the run of word bytes that holds offset p ends
RECURSIVE WordEnd(_, _)
WordEnd(in, p) ==
    IF p < Len(in) /\ in[p + 1] \in WordBytes THEN WordEnd(in, p + 1) ELSE p

Lexeme(in, p, e) == [pos |-> p, val |-> SubSeq(in, p + 1, e)]

\* the lexemes of in from offset p on, each with its offset
RECURSIVE SplitLexemes(_, _)
SplitLexemes(in, p) ==
    CASE p >= Len(in) -> <<>>
      [] in[p + 1] \in WhiteSpace -> SplitLexemes(in, p + 1)
      [] in[p + 1] \in WordBytes ->
            <<Lexeme(in, p, WordEnd(in, p))>> \o SplitLexemes(in, WordEnd(in, p))
      [] OTHER -> <<Lexeme(in, p, p + 1)>> \o SplitLexemes(in, p + 1)

IsIdentifier(v) ==
    /\ v # <<>>
    /\ v[1] \in WordBytes \ DigitBytes
    /\ \A i \in 1..Len(v) : v[i] \in WordBytes

\* select <item> (, <item>)* from <identifier> ;
StatementForm(lexs) ==
    LET n == Len(lexs) IN
    /\ n >= 5
    /\ n % 2 = 1
    /\ lexs[1].val = <<"s", "e", "l", "e", "c", "t">>
    /\ \A j \in 2..(n - 3) :
           IF j % 2 = 0
           THEN lexs[j].val = <<"*">> \/ IsIdentifier(lexs[j].val)
           ELSE lexs[j].val = <<",">>
    /\ lexs[n - 2].val = <<"f", "r", "o", "m">>
    /\ IsIdentifier(lexs[n - 1].val)
    /\ lexs[n].val = <<";">>

\* the kind of the token for lexeme j of a statement of n lexemes
ExpectedKind(v, j, n) ==
    CASE j = 1 -> itemSelect
      [] j = n -> itemEOF
      [] j = n - 1 -> itemIdentifier
      [] j = n - 2 -> itemFrom
      [] v = <<"*">> -> itemStar
      [] v = <<",">> -> itemComma
      [] OTHER -> itemIdentifier

Expected(lexs) ==
    [j \in 1..Len(lexs) |->
        [typ |-> ExpectedKind(lexs[j].val, j, Len(lexs)),
         pos |-> lexs[j].pos, val |-> lexs[j].val]]

\* kind, offset and text of the items of q
KindPosText(q) ==
    [i \in 1..Len(q) |-> [typ |-> q[i].typ, pos |-> q[i].pos, val |-> q[i].val]]

KindText(q) == [i \in 1..Len(q) |-> [typ |-> q[i].typ, val |-> q[i].val]]

Tok(typ, pos, val) == [typ |-> typ, pos |-> pos, val |-> val]

SelectStarFromT ==
    <<"s", "e", "l", "e", "c", "t", " ", "*", " ", "f", "r", "o", "m", " ", "t", ";">>

SelectABCFromT ==
    <<"s", "e", "l", "e", "c", "t", " ", "a", ",", " ", "b", ",", " ", "c", " ",
      "f", "r", "o", "m", " ", "t", ";">>

(***************************************************************************)
(* C7: for an input whose lexemes are                                      *)
(*     select <item> (, <item>)* from <identifier> ;                       *)
(* with every item `*` or an ASCII identifier, the items produced are at   *)
(* every moment the tokens of the first lexemes, one per lexeme, with the  *)
(* lexeme's kind, offset and text, and at the end of the scan they are the *)
(* tokens of all of them, the last an EOF item for the `;`.  The two       *)
(* statements of the documentation give the tokens it lists.               *)
(***************************************************************************)
StatementTokens(in, lexs, q, done) ==
    StatementForm(lexs) =>
        /\ IsPrefix(KindPosText(q), Expected(lexs))
        /\ done => Len(q) = Len(lexs)

C7_StatementTokens ==
    \A s \in Scans :
        /\ StatementTokens(input[s], SplitLexemes(input[s], 0), produced[s],
                           Finished(s))
        /\ (input[s] = SelectStarFromT /\ closed[s]) =>
               KindPosText(Taken(s))
                   = <<Tok(itemSelect, 0, <<"s", "e", "l", "e", "c", "t">>),
                       Tok(itemStar, 7, <<"*">>),
                       Tok(itemFrom, 9, <<"f", "r", "o", "m">>),
                       Tok(itemIdentifier, 14, <<"t">>),
                       Tok(itemEOF, 15, <<";">>)>>
        /\ (input[s] = SelectABCFromT /\ closed[s]) =>
               KindText(Taken(s))
                   = <<[typ |-> itemSelect, val |-> <<"s", "e", "l", "e", "c", "t">>],
                       [typ |-> itemIdentifier, val |-> <<"a">>],
                       [typ |-> itemComma, val |-> <<",">>],
                       [typ |-> itemIdentifier, val |-> <<"b">>],
                       [typ |-> itemComma, val |-> <<",">>],
                       [typ |-> itemIdentifier, val |-> <<"c">>],
                       [typ |-> itemFrom, val |-> <<"f", "r", "o", "m">>],
                       [typ |-> itemIdentifier, val |-> <<"t">>],
                       [typ |-> itemEOF, val |-> <<";">>]>>

C7_Witness ==
    \E s \in Scans :
        /\ input[s] = SelectABCFromT
        /\ closed[s]
        /\ Len(received[s]) = 9
        /\ Last(received[s]).typ = itemEOF

(***************************************************************************)
(* C8: the line of every item produced, the Error item included, is the    *)
(* line its first byte is on: 1 plus the number of newlines in the input   *)
(* before the item's offset.                                               *)
(***************************************************************************)
LineAtTokenStart(in, q) ==
    \A i \in 1..Len(q) : q[i].line = 1 + NewlinesBefore(in, q[i].pos)

C8_LineAtTokenStart ==
    \A s \in Scans : LineAtTokenStart(input[s], produced[s])

\* select\n* from t;  the `*` is on line 2 and its item says line 1
C8_Witness ==
    \E s \in Scans :
        /\ input[s] = <<"s", "e", "l", "e", "c", "t", "\n", "*", " ",
                        "f", "r", "o", "m", " ", "t", ";">>
        /\ Len(received[s]) >= 2
        /\ received[s][2].typ = itemStar
        /\ received[s][2].pos = 7
        /\ received[s][2].line = 1

(***************************************************************************)
(* C9: two inputs that differ only in the whitespace before tokens give    *)
(* the same kinds and texts.  The second input is the first with every     *)
(* non-empty run of whitespace that lies before a token of the first       *)
(* (between the end of the token before it, or the start of the input,     *)
(* and the token's offset) replaced by a non-empty run of whitespace: read *)
(* from the left, it has whitespace where the first has, and then the      *)
(* token's text; after the offset of the last token the two are the same.  *)
(***************************************************************************)
\* the offset at which the run of whitespace at offset p ends
RECURSIVE GapEnd(_, _)
GapEnd(in, p) ==
    IF p < Len(in) /\ in[p + 1] \in WhiteSpace THEN GapEnd(in, p + 1) ELSE p

\* the offset at which the token before q[i] ends
PrevEnd(q, i) == IF i = 1 THEN 0 ELSE EndOf(q[i - 1])

\* the text that starts at q[i]: of the last item, the rest of the input
Body(in, q, i) ==
    IF i = Len(q) THEN SubSeq(in, q[i].pos + 1, Len(in)) ELSE q[i].val

HasAt(in, p, text) ==
    p + Len(text) <= Len(in) /\ SubSeq(in, p + 1, p + Len(text)) = text

\* inb from offset pb on is ina from the end of item i - 1 on, but for the
\* whitespace before the items; e is the end of the gap at pb
RECURSIVE SameButGaps(_, _, _, _, _)
SameAfterGap(ina, q, i, inb, pb, e) ==
    /\ (q[i].pos = PrevEnd(q, i)) <=> (e = pb)
    /\ HasAt(inb, e, Body(ina, q, i))
    /\ IF i = Len(q) THEN e + Len(Body(ina, q, i)) = Len(inb)
       ELSE SameButGaps(ina, q, i + 1, inb, e + Len(Body(ina, q, i)))

SameButGaps(ina, q, i, inb, pb) ==
    \E e \in {GapEnd(inb, pb)} : SameAfterGap(ina, q, i, inb, pb, e)

BothScanned == Scans = {"a", "b"} /\ Finished("a") /\ Finished("b")

C9_WhitespaceInsensitive ==
    (BothScanned /\ SameButGaps(input["a"], produced["a"], 1, input["b"], 0))
        => KindText(produced["a"]) = KindText(produced["b"])

C9_Witness ==
    /\ BothScanned
    /\ closed["b"]
    /\ SameButGaps(input["a"], produced["a"], 1, input["b"], 0)
    /\ Len(input["b"]) > Len(input["a"]) + 2
    /\ \E i \in 1..Len(input["b"]) : input["b"][i] = "\t"
    /\ Len(received["b"]) >= 7
    /\ \E i \in 1..Len(received["b"]) : received["b"][i].typ = itemString

(***************************************************************************)
(* C10: an input that has upper-case letters in the keywords where another *)
(* has `select` and `from`, and is the same elsewhere, gives the same      *)
(* kinds and offsets, and each of its Select and From items has for text   *)
(* the bytes of its own input at its offset.                               *)
(***************************************************************************)
IsKeyword(it) == it.typ \in {itemSelect, itemFrom}

KeywordLen(it) == IF it.typ = itemSelect THEN 6 ELSE 4

\* byte p (from 1) of the input lies in a Select or From item of q
InKeyword(q, p) ==
    \E i \in 1..Len(q) : IsKeyword(q[i]) /\ q[i].pos < p /\ p <= EndOf(q[i])

LowerKeywords(q) ==
    \A i \in 1..Len(q) :
        /\ q[i].typ = itemSelect => q[i].val = <<"s", "e", "l", "e", "c", "t">>
        /\ q[i].typ = itemFrom => q[i].val = <<"f", "r", "o", "m">>

SameButCase(ina, q, inb) ==
    /\ Len(inb) = Len(ina)
    /\ LowerKeywords(q)
    /\ \A p \in 1..Len(ina) :
           \/ inb[p] = ina[p]
           \/ InKeyword(q, p) /\ inb[p] = UpperCase(ina[p])

KindPos(q) == [i \in 1..Len(q) |-> [typ |-> q[i].typ, pos |-> q[i].pos]]

KeywordsAsWritten(in, q) ==
    \A i \in 1..Len(q) :
        IsKeyword(q[i]) =>
            q[i].val = SubSeq(in, q[i].pos + 1, q[i].pos + KeywordLen(q[i]))

C10_KeywordCase ==
    /\ (BothScanned /\ SameButCase(input["a"], produced["a"], input["b"]))
           => /\ KindPos(produced["a"]) = KindPos(produced["b"])
              /\ KeywordsAsWritten(input["b"], produced["b"])
    /\ \A s \in Scans :
           (closed[s] /\ input[s] = <<"S", "e", "L", "e", "C", "t", " ", "*", " ",
                                      "F", "R", "O", "M", " ", "t", ";">>)
               => KindPosText(Taken(s))
                      = <<Tok(itemSelect, 0, <<"S", "e", "L", "e", "C", "t">>),
                          Tok(itemStar, 7, <<"*">>),
                          Tok(itemFrom, 9, <<"F", "R", "O", "M">>),
                          Tok(itemIdentifier, 14, <<"t">>),
                          Tok(itemEOF, 15, <<";">>)>>

C10_Witness ==
    /\ BothScanned
    /\ closed["b"]
    /\ SameButCase(input["a"], produced["a"], input["b"])
    /\ Len(received["b"]) = 5
    /\ received["b"][1].val = <<"S", "e", "L", "e", "C", "t">>
    /\ received["b"][3].val = <<"F", "R", "O", "M">>

(***************************************************************************)
(* C11: the scan of `select * fromm t;` delivers one Error item, as the    *)
(* last item, and no EOF item, and the stream is then closed.  The items   *)
(* are Select, Star, From for the first four letters of `fromm`,           *)
(* Identifier for the `m` left over, and the Error "unterminated           *)
(* statement" at the `t`.                                                  *)
(***************************************************************************)
SelectStarFrommT ==
    <<"s", "e", "l", "e", "c", "t", " ", "*", " ", "f", "r", "o", "m", "m", " ",
      "t", ";">>

ErrorsIn(q) == {i \in 1..Len(q) : q[i].typ = itemError}

C11_MisspelledFrom ==
    \A s \in Scans :
        input[s] = SelectStarFrommT =>
            /\ \A i \in 1..Len(produced[s]) : produced[s][i].typ # itemEOF
            /\ Cardinality(ErrorsIn(produced[s])) <= 1
            /\ Finished(s) =>
                   KindPosText(produced[s])
                       = <<Tok(itemSelect, 0, <<"s", "e", "l", "e", "c", "t">>),
                           Tok(itemStar, 7, <<"*">>),
                           Tok(itemFrom, 9, <<"f", "r", "o", "m">>),
                           Tok(itemIdentifier, 13, <<"m">>),
                           Tok(itemError, 15, <<"unterminated statement">>)>>
            /\ closed[s] => Taken(s) = produced[s]

C11_Witness ==
    \E s \in Scans :
        /\ input[s] = SelectStarFrommT
        /\ closed[s]
        /\ Len(received[s]) = 5
        /\ ErrorsIn(received[s]) = {5}

(***************************************************************************)
(* C12: the state lexEndOfStatement is entered only after the Identifier   *)
(* of the table name.  Its call skips whitespace; if a `;` follows it      *)
(* sends the EOF item for the `;` and leaves the cursor just after it,     *)
(* whatever the input holds from there on; in every other case, the end of *)
(* the input included, it sends the Error item "unterminated statement".   *)
(* In both cases it returns nil, so nothing follows the item.              *)
(***************************************************************************)
AfterTableName(q) ==
    /\ Len(q) >= 4
    /\ q[Len(q)].typ = itemIdentifier
    /\ q[Len(q) - 1].typ = itemFrom

SemicolonAt(in, p) == p < Len(in) /\ in[p + 1] = ";"

\* what the call in state lexEndOfStatement sends, p the end of the whitespace
EndOfStatementSends(s, p) ==
    /\ state'[s] = nil
    /\ produced'[s] = produced[s] \o sending'[s]
    /\ IF SemicolonAt(input[s], p)
       THEN /\ KindPosText(sending'[s]) = <<Tok(itemEOF, p, <<";">>)>>
            /\ l'[s].pos = p + 1
       ELSE KindPosText(sending'[s])
                = <<Tok(itemError, p, <<"unterminated statement">>)>>

EndOfStatementCall(s) ==
    (s \in Scans /\ state[s] = "lexEndOfStatement" /\ state'[s] # state[s])
        => EndOfStatementSends(s, GapEnd(input[s], l[s].pos))

C12_EndOfStatement ==
    /\ [](\A s \in Scans :
              state[s] = "lexEndOfStatement" => AfterTableName(produced[s]))
    /\ [][\A s \in ScanIds : EndOfStatementCall(s)]_vars

C12_Witness ==
    \E s \in Scans :
        /\ closed[s]
        /\ received[s] # <<>>
        /\ Last(received[s]).typ = itemEOF
        /\ EndOf(Last(received[s])) < Len(input[s])
        /\ input[s][Len(input[s])] \notin WhiteSpace

(***************************************************************************)
(* The statement `select <literal> from t;` and the items of its scan when *)
(* the literal is one item of kind `typ`.                                  *)
(***************************************************************************)
SelectLit(x) ==
    <<"s", "e", "l", "e", "c", "t", " ">> \o x \o <<" ", "f", "r", "o", "m", " ", "t", ";">>

OneItemScan(typ, x) ==
    <<Tok(itemSelect, 0, <<"s", "e", "l", "e", "c", "t">>),
      Tok(typ, 7, x),
      Tok(itemFrom, 8 + Len(x), <<"f", "r", "o", "m">>),
      Tok(itemIdentifier, 13 + Len(x), <<"t">>),
      Tok(itemEOF, 14 + Len(x), <<";">>)>>

\* the items produced are those of `expected`, as far as the scan has come
Scans_To(s, expected) ==
    /\ IsPrefix(KindPosText(produced[s]), expected)
    /\ Finished(s) => KindPosText(produced[s]) = expected

\* the scan of `select <x> from t;` ends in an Error item at the literal,
\* with the message msg and the text `quoted` in quotes
FailsAtLiteral(msg, quoted) ==
    <<Tok(itemSelect, 0, <<"s", "e", "l", "e", "c", "t">>),
      Tok(itemError, 7, <<msg, "\"">> \o quoted \o <<"\"">>)>>

(***************************************************************************)
(* C13: as the item of `select <literal> from t;`, each of 11, +3.5, 0xFF, *)
(* 0b101, 1e10 and 0x1p4 is one Number item with the whole literal as its  *)
(* text, and 12abc gives no Number item but an Error item "bad number".    *)
(***************************************************************************)
GoodNumbers ==
    {<<"1", "1">>, <<"+", "3", ".", "5">>, <<"0", "x", "F", "F">>,
     <<"0", "b", "1", "0", "1">>, <<"1", "e", "1", "0">>, <<"0", "x", "1", "p", "4">>}

C13_NumberLiterals ==
    \A s \in Scans :
        /\ \A x \in GoodNumbers :
               input[s] = SelectLit(x) => Scans_To(s, OneItemScan(itemNumber, x))
        /\ input[s] = SelectLit(<<"1", "2", "a", "b", "c">>) =>
               Scans_To(s, FailsAtLiteral("bad number: %q", <<"1", "2", "a">>))

C13_Witness ==
    \E s \in Scans :
        /\ input[s] = SelectLit(<<"0", "x", "1", "p", "4">>)
        /\ closed[s]
        /\ Len(received[s]) = 5
        /\ received[s][2].typ = itemNumber
        /\ received[s][2].val = <<"0", "x", "1", "p", "4">>

(***************************************************************************)
(* C14: a string literal, read off the text.  StringEnd is the offset just *)
(* after the quote that closes the string whose text starts at offset p    *)
(* (after the opening quote), or NoEnd: a backslash takes the byte after   *)
(* it with it, unless that is a newline or the end of the input; a quote   *)
(* followed by a quote is an embedded quote; another quote closes; a       *)
(* newline or the end of the input is a failure.                           *)
(***************************************************************************)
NoEnd == 0 - 1

RECURSIVE StringEnd(_, _)
StringEnd(in, p) ==
    CASE p >= Len(in) -> NoEnd
      [] in[p + 1] = "\n" -> NoEnd
      [] in[p + 1] = "\\" ->
            IF p + 1 >= Len(in) \/ in[p + 2] = "\n" THEN NoEnd
            ELSE StringEnd(in, p + 2)
      [] in[p + 1] = "'" ->
            IF p + 1 < Len(in) /\ in[p + 2] = "'" THEN StringEnd(in, p + 2)
            ELSE p + 1
      [] OTHER -> StringEnd(in, p + 1)

\* the input is `select ` and then a quote
SelectQuote(in) ==
    /\ Len(in) >= 8
    /\ SubSeq(in, 1, 8) = <<"s", "e", "l", "e", "c", "t", " ", "'">>

\* the item for the string that opens at offset 7, e the end of the string
StringItem(in, it, e) ==
    IF e = NoEnd
    THEN it.typ = itemError /\ it.pos = 7 /\ it.val[1] = "bad string: %q"
    ELSE it = Tok(itemString, 7, SubSeq(in, 8, e))

C14_StringLiterals ==
    \A s \in Scans :
        /\ (SelectQuote(input[s]) /\ Len(produced[s]) >= 2) =>
               StringItem(input[s], KindPosText(produced[s])[2],
                          StringEnd(input[s], 8))
        /\ input[s] = SelectLit(<<"'", "a", "b", "'", "'", "c", "'">>) =>
               Scans_To(s, OneItemScan(itemString,
                                       <<"'", "a", "b", "'", "'", "c", "'">>))
        /\ input[s] = SelectLit(<<"'", "a">>) =>
               Scans_To(s, FailsAtLiteral("bad string: %q",
                               <<"'", "a", " ", "f", "r", "o", "m", " ", "t", ";">>))

C14_Witness ==
    \E s \in Scans :
        /\ closed[s]
        /\ Len(received[s]) = 5
        /\ received[s][2].typ = itemString
        /\ received[s][2].val = <<"'", "\\", "'", "'">>

(***************************************************************************)
(* C15: two scans of the same input, the second started at any moment and  *)
(* the two running interleaved in any way, produce the same items (kind,   *)
(* offset, text and line): at every moment the items of one are the first  *)
(* items of the other, and at their ends they are the same; and no step    *)
(* changes anything of both scans: a step of one scan, the call of lex     *)
(* that creates it included, leaves the cursor, the state, the channel and *)
(* the items of the other as they are.                                     *)
(***************************************************************************)
\* all there is of scan s
ScanOf(s) ==
    <<input[s], l[s], state[s], sending[s], closed[s], produced[s], cpc[s],
      received[s], afterClose[s], discarded[s], drains[s]>>

SameItems(s, t) ==
    input[s] = input[t] =>
        /\ IsPrefix(produced[s], produced[t]) \/ IsPrefix(produced[t], produced[s])
        /\ IsPrefix(received[s], received[t]) \/ IsPrefix(received[t], received[s])
        /\ (Finished(s) /\ Finished(t)) => produced[s] = produced[t]
        /\ (closed[s] /\ closed[t]) => received[s] = received[t]
        /\ (l[s].pos = l[t].pos /\ l[s].start = l[t].start /\ state[s] = state[t]
                /\ sending[s] = sending[t])
               => l[s] = l[t]

\* a step leaves the scans that exist before it, but for one, as they are
OneScanSteps ==
    \A s, t \in Scans : (s # t /\ ScanOf(s)' # ScanOf(s)) => ScanOf(t)' = ScanOf(t)

\* the call of lex that creates a scan leaves the scans there are as they are
LexStepsAlone ==
    \A s \in ScanIds \ Scans :
        s \in Scans' => \A t \in Scans : ScanOf(t)' = ScanOf(t)

Blocked(s) == s \in Scans /\ sending[s] # <<>> /\ ~closed[s]

NothingTaken(s) == received'[s] = received[s] /\ discarded'[s] = discarded[s]

StaysBlocked(s) ==
    (Blocked(s) /\ NothingTaken(s)) =>
        /\ Blocked(s)'
        /\ <<l[s], state[s], sending[s], produced[s]>>'
               = <<l[s], state[s], sending[s], produced[s]>>

ConsumerAway(s) == s \in Scans /\ cpc[s] = "idle"

C16_BlockedWithoutConsumer ==
    /\ [][\A s \in ScanIds : StaysBlocked(s)]_vars
    /\ \A s \in ScanIds :
           []((Blocked(s) /\ []ConsumerAway(s)) => []Blocked(s))
    /\ \A s \in ScanIds :
           (Blocked(s) /\ cpc[s] = "drain") ~> (s \in Scans /\ closed[s])

C16_Witness ==
    \E s \in Scans :
        /\ Blocked(s)
        /\ ConsumerAway(s)
        /\ Len(received[s]) = 2
        /\ ~Terminal(sending[s][1])
        /\ drains[s] = 0


(***************************************************************************)
(* C17: backup runs only directly after next                               *)
(***************************************************************************)
\* C17: in every scan, no call of backup (direct, or inside peek, accept,
\* acceptRun, skipWhitespace and the sub-scanners) runs unless the cursor
\* operation before it was a call of next; so no backup follows another
\* backup, or the construction of the lexer, without a next in between, and
\* the width it steps back by is the width that next has set.
RuneWidthAt(in, p) == IF p >= Len(in) THEN 0 ELSE DecodeRuneInString(in, p).w

C17_BackupAfterNext ==
    \A s \in Scans :
        /\ ~l[s].twice
        /\ \/ l[s].ahead
           \/ l[s] = newLexer
           \/ l[s].width = RuneWidthAt(input[s], l[s].pos)

\* a finished scan of a statement with a number and an identifier in it: peek
\* has stepped back after both, and the last operation was the next that
\* read the end of the input
C17_Witness ==
    \E s \in Scans :
        /\ closed[s] /\ Taken(s) # <<>> /\ Last(Taken(s)).typ = itemEOF
        /\ \E i \in DOMAIN Taken(s) : Taken(s)[i].typ = itemNumber
        /\ \E i \in DOMAIN Taken(s) : Taken(s)[i].typ = itemIdentifier
        /\ l[s].ahead /\ ~l[s].twice


(***************************************************************************)
(* C18: the alphabet of a number, read off its text.  After the sign, the  *)
(* prefix 0x, 0o or 0b names the alphabet; the bytes after the prefix are  *)
(* digits of that alphabet, the point, the final i, and an exponent (its   *)
(* marker and sign) where the alphabet has one.                            *)
(***************************************************************************)
NumberBody(v) == IF v # <<>> /\ v[1] \in {"+", "-"} THEN Tail(v) ELSE v

HasPrefix(b, letters) == Len(b) >= 2 /\ b[1] = "0" /\ b[2] \in letters

AfterPrefix(b) ==
    IF HasPrefix(b, {"x", "X", "o", "O", "b", "B"}) THEN SubSeq(b, 3, Len(b)) ELSE b

DecimalBytes == {"0", "1", "2", "3", "4", "5", "6", "7", "8", "9", "_"}

AllowedBytes(b) ==
    IF HasPrefix(b, {"x", "X"})
    THEN DecimalBytes \cup {"a", "b", "c", "d", "e", "f", "A", "B", "C", "D", "E", "F"}
             \cup {".", "i", "p", "P", "+", "-"}
    ELSE IF HasPrefix(b, {"o", "O"})
    THEN (DecimalBytes \ {"8", "9"}) \cup {".", "i"}
    ELSE IF HasPrefix(b, {"b", "B"})
    THEN {"0", "1", "_", ".", "i"}
    ELSE DecimalBytes \cup {".", "i", "e", "E", "+", "-"}

InAlphabet(v) ==
    \A j \in DOMAIN AfterPrefix(NumberBody(v)) :
        AfterPrefix(NumberBody(v))[j] \in AllowedBytes(NumberBody(v))

\* the literals that leave their alphabet, each with the text scanned when
\* the sub-scanner fails
BadNumbers ==
    {<<<<"0", "b", "1", "2">>, <<"0", "b", "1", "2">>>>,
     <<<<"0", "o", "8">>, <<"0", "o", "8">>>>,
     <<<<"1", "p", "4">>, <<"1", "p">>>>,
     <<<<"0", "b", "1", "e", "1">>, <<"0", "b", "1", "e">>>>,
     <<<<"0", "o", "7", "e", "1">>, <<"0", "o", "7", "e">>>>}

ExponentNumbers == {<<"0", "x", "1", "p", "4">>, <<"1", "e", "1", "0">>}

\* C18: every Number item of a scan has, after its sign and prefix, only
\* bytes of the alphabet the prefix selects (hex after 0x, 0-7 after 0o, 0-1
\* after 0b, decimal otherwise), with e/E only in a decimal number (where it
\* is not a hex digit) and p/P only in a hex one; as the item of
\* `select <literal> from t;`, 0b12, 0o8, 1p4, 0b1e1 and 0o7e1 give an Error
\* item "bad number", and 0x1p4 and 1e10 give one Number item.
C18_NumberAlphabets ==
    \A s \in Scans :
        /\ \A i \in DOMAIN produced[s] :
               produced[s][i].typ = itemNumber => InAlphabet(produced[s][i].val)
        /\ \A x \in BadNumbers :
               input[s] = SelectLit(x[1]) =>
                   Scans_To(s, FailsAtLiteral("bad number: %q", x[2]))
        /\ \A x \in ExponentNumbers :
               input[s] = SelectLit(x) => Scans_To(s, OneItemScan(itemNumber, x))

C18_Witness ==
    \E s \in Scans :
        /\ input[s] = SelectLit(<<"0", "b", "1", "e", "1">>)
        /\ closed[s]
        /\ Len(received[s]) = 2
        /\ received[s][2].typ = itemError


(***************************************************************************)
(* C19: a call of lexSelectKeyword or lexFromKeyword, read off the input.  *)
(* The keyword is looked for at p, the end of the whitespace that starts   *)
(* at the cursor.                                                          *)
(***************************************************************************)
SpelledAt(in, p, keyword) ==
    /\ p + Len(keyword) <= Len(in)
    /\ \A j \in 1..Len(keyword) :
           in[p + j] = keyword[j] \/ in[p + j] = UpperCase(keyword[j])

KeywordCall(s, name, keyword, typ, nextName) ==
    (s \in Scans /\ state[s] = name /\ state'[s] # name) =>
        /\ Len(produced'[s]) = Len(produced[s]) + 1
        /\ SubSeq(produced'[s], 1, Len(produced[s])) = produced[s]
        /\ Last(produced'[s]).pos = GapEnd(input[s], l[s].pos)
        /\ IF SpelledAt(input[s], GapEnd(input[s], l[s].pos), keyword)
           THEN /\ Last(produced'[s]).typ = typ
                /\ Len(Last(produced'[s]).val) = Len(keyword)
                /\ state'[s] = nextName
           ELSE /\ Last(produced'[s]).typ = itemError
                /\ state'[s] = nil

KeywordCalls ==
    \A s \in ScanIds :
        /\ KeywordCall(s, "lexSelectKeyword", <<"s", "e", "l", "e", "c", "t">>,
                       itemSelect, "lexValueExprList")
        /\ KeywordCall(s, "lexFromKeyword", <<"f", "r", "o", "m">>,
                       itemFrom, "lexFromTableName")

\* C19: a call of lexSelectKeyword or lexFromKeyword produces exactly one
\* item, at the offset of the first byte after the whitespace at the cursor.
\* When the bytes there spell the whole keyword in any mix of cases, the item
\* is the Select or From item and the next state is lexValueExprList or
\* lexFromTableName; when a byte differs or the input ends inside the
\* keyword, the item is an Error item and the scan stops (no Select or From
\* item is produced by the call).
C19_KeywordMismatch == [][KeywordCalls]_vars

\* a scan has ended in an Error item at a word that starts like `from` and
\* differs from it in a byte that is there
C19_Witness ==
    \E s \in Scans :
        /\ closed[s] /\ received[s] # <<>>
        /\ Last(received[s]).typ = itemError
        /\ Len(received[s]) >= 3
        /\ received[s][Len(received[s]) - 1].typ \in {itemIdentifier, itemStar}
        /\ HasAt(input[s], Last(received[s]).pos, <<"f", "r", "o", "n">>)


(***************************************************************************)
(* C20: the digits of a Number item, read off its text: the bytes after    *)
(* the sign and the prefix that are digits of the number's alphabet.       *)
(***************************************************************************)
DigitsOf(b) == AllowedBytes(b) \ {".", "i", "p", "P", "+", "-", "_"}

HasDigit(v) ==
    \E j \in DOMAIN AfterPrefix(NumberBody(v)) :
        AfterPrefix(NumberBody(v))[j] \in DigitsOf(NumberBody(v))

\* C20: every Number item delivered by a scan has at least one digit after
\* its optional sign and optional prefix; in particular no Number item has a
\* sign as its whole text.
C20_NumberHasDigit ==
    \A s \in Scans :
        \A i \in DOMAIN received[s] :
            received[s][i].typ = itemNumber => HasDigit(received[s][i].val)

\* the scan of `select - , a from t ;` has ended with EOF after delivering a
\* Number item whose text is the sign alone, followed by the comma
C20_Witness ==
    \E s \in Scans :
        /\ closed[s] /\ received[s] # <<>>
        /\ Last(received[s]).typ = itemEOF
        /\ \E i \in 1..(Len(received[s]) - 1) :
               /\ received[s][i].typ = itemNumber
               /\ received[s][i].val = <<"-">>
               /\ received[s][i + 1].typ = itemComma


(***************************************************************************)
(* C21: the cursor stays inside the input                                  *)
(***************************************************************************)
InBounds(in, c) == 0 <= c.start /\ c.start <= c.pos /\ c.pos <= Len(in)

\* C21: in every state of every scan, on any input (the empty input and the
\* inputs that end inside a token included), 0 <= start <= pos <= len(input),
\* so the slice input[start:pos] that emit or an error message takes is
\* within the input; and no backup has stepped to before start or read
\* input[pos] at an index outside the input.
C21_CursorInBounds ==
    \A s \in Scans : InBounds(input[s], l[s]) /\ ~l[s].outside

\* a scan of an input that ends inside a keyword has ended in its Error item,
\* with the cursor at the end of the input and the unfinished word pending
C21_Witness ==
    \E s \in Scans :
        /\ closed[s] /\ received[s] # <<>>
        /\ Last(received[s]).typ = itemError
        /\ Len(received[s]) >= 3
        /\ l[s].pos = Len(input[s])
        /\ l[s].start < l[s].pos
        /\ l[s].ahead


(***************************************************************************)
(* C22: the line counter counts the newlines before the cursor             *)
(***************************************************************************)
\* C22: in every state of every scan, the line counter is 1 plus the number
\* of '\n' bytes of the input before pos: what next has added for the
\* newlines it consumed, backup has taken off for those it stepped back
\* over, in peek, accept, acceptRun and skipWhitespace as in the state
\* functions.
C22_LineCountsNewlines ==
    \A s \in Scans : l[s].line = 1 + NewlinesBefore(input[s], l[s].pos)

\* a scan has ended with EOF on an input in which a newline directly follows
\* an identifier, so that acceptRun and peek have both read the newline and
\* stepped back over it, and the cursor has then passed it
C22_Witness ==
    \E s \in Scans :
        /\ closed[s] /\ received[s] # <<>>
        /\ Last(received[s]).typ = itemEOF
        /\ l[s].line >= 2
        /\ \E i \in DOMAIN received[s] :
               /\ received[s][i].typ = itemIdentifier
               /\ EndOf(received[s][i]) < l[s].pos
               /\ input[s][EndOf(received[s][i]) + 1] = "\n"


(***************************************************************************)
(* C23: nextItem after the terminal item                                   *)
(***************************************************************************)
\* the zero value of item: kind Error, offset 0, empty text, line 0
ZeroToken == [typ |-> itemError, pos |-> 0, val |-> <<>>, line |-> 0]

LateCall(s) == s \in Scans /\ TerminalReceived(s) /\ cpc[s] = "nextItem"

\* a call made after the terminal item returns only from the closed stream,
\* and with the zero token, delivering nothing else
LateCallReturns(s) ==
    (LateCall(s) /\ cpc'[s] # "nextItem") =>
        /\ closed[s]
        /\ cpc'[s] = "idle"
        /\ afterClose'[s] = Append(afterClose[s], ZeroToken)
        /\ received'[s] = received[s]
        /\ discarded'[s] = discarded[s]

\* C23: a nextItem call made after the terminal item of a scan has been
\* received returns: the producer closes the stream, and from then on the
\* call can return at once; every such call returns the zero token (kind
\* Error, empty text, offset 0, line 0) and nothing else.
C23_NextItemAfterTerminal ==
    /\ \A s \in ScanIds : LateCall(s) ~> (s \in Scans /\ cpc[s] = "idle")
    /\ \A s \in ScanIds : LateCall(s) ~> (s \in Scans /\ closed[s])
    /\ [](\A s \in Scans : (closed[s] /\ cpc[s] = "nextItem") =>
                               ENABLED NextItemClosed(s))
    /\ [][\A s \in ScanIds : LateCallReturns(s)]_vars
    /\ [](\A s \in Scans : \A i \in DOMAIN afterClose[s] :
              afterClose[s][i] = ZeroToken)

\* a call made after the EOF item was received has returned the zero token
C23_Witness ==
    \E s \in Scans :
        /\ TerminalReceived(s)
        /\ Last(received[s]).typ = itemEOF
        /\ closed[s]
        /\ cpc[s] = "idle"
        /\ afterClose[s] # <<>>
        /\ Last(afterClose[s]) = ZeroToken

====
